---- MODULE Spec2Model ----
(***************************************************************************)
(* Model of MetamaskService (src/unnamed/part_001, the final revision of   *)
(* src/src/index.ts and src/unnamed/part_000): the connect handshake of    *)
(* getAccount, the chainChanged / accountsChanged handlers registered by   *)
(* the constructor, and the token amount pipeline.                         *)
(***************************************************************************)
EXTENDS Integers, Sequences, FiniteSets, TLC

\* ------------------------------------------------------------------ bounds
NumCalls == 2          \* getAccount() calls that may be in flight together
MaxAccounts == 2       \* longest account list eth_requestAccounts returns
MaxEvents == 2         \* wallet events delivered
MaxAbi == 2            \* longest abi handed to createTransaction()

\* ------------------------------------------------------- JavaScript values
Null == "<null>"
Undefined == "<undefined>"

\* Truthiness of the string-or-nothing values the service tests with ! and ||.
Falsy(v) == v \in {Null, Undefined, ""}

\* String(v), as used by the chainChanged handler.
Str(v) == IF v = Null THEN "null" ELSE IF v = Undefined THEN "undefined" ELSE v

\* -------------------------------------------------------------- networks
networks == [mainnet |-> "0x1", ropsten |-> "0x3", kovan |-> "0x2a", rinkeby |-> "0x4"]

Testnets == {"ropsten", "kovan", "rinkeby", Undefined}
ChainIds == {"0x1", "0x3", "0x2a", "0x4"}
Addresses == {"0xA", "0xB"}
AccountLists == UNION {[1..n -> Addresses] : n \in 1..MaxAccounts}
Calls == 1..NumCalls
\* The configurations new MetamaskService accepts; isProduction makes testnet moot.
Policies == (Testnets \X {FALSE}) \cup {<<"ropsten", TRUE>>, <<Undefined, TRUE>>}

\* networks[name], undefined for a name the table lacks.
Lookup(name) == IF name \in DOMAIN networks THEN networks[name] ELSE Undefined

VARIABLES
  injected,       \* window.ethereum holds a wallet object
  testnet,        \* this.testnet
  isProduction,   \* this.isProduction
  service,        \* "none" | "ready" | "ctorThrew": the MetamaskService object
  walletAddress,  \* this.walletAddress
  storedChainId,  \* localStorage 'chainId'
  reloads,        \* window.location.reload() calls so far
  reloadPending,  \* reload() was called and the page has not been torn down yet
  nEvents,        \* wallet events delivered so far
  lastEvent,      \* the wallet event delivered last
  conn,           \* the getAccount() calls, one record per caller
  allowanceCheck, \* the checkTokenAllowance() call
  approval,       \* the approveToken() call
  roundTrip,      \* an amount taken through totalSupply's and calcTransactionAmount's arithmetic
  transaction     \* the createTransaction() / sendTransaction() call

vars == <<injected, testnet, isProduction, service, walletAddress, storedChainId,
          reloads, reloadPending, nEvents, lastEvent, conn,
          allowanceCheck, approval, roundTrip, transaction>>

tokenVars == <<allowanceCheck, approval, roundTrip, transaction>>

NoError == <<>>
NoResult == [address |-> Undefined, network |-> Undefined]

IdleCall == [pc |-> "idle", usedNetwork |-> Undefined, usedChain |-> Undefined,
             currentChain |-> Undefined, resChain |-> Undefined,
             askedChainId |-> FALSE, askedAccounts |-> FALSE,
             error |-> NoError, result |-> NoResult]

NoEvent == [kind |-> "none", chain |-> Undefined]

\* ---------------------------------------------------- big natural numbers
\* Naturals of any size, as the arbitrary-precision library and the exact
\* definition of IEEE doubles need them: little-endian sequences of limbs below
\* LimbBase = 10^LimbDigits, the top limb not 0; <<>> is 0.  Recursion runs over
\* limbs, never over single digits or bits, and a value that is used more than
\* once is handed on as a parameter.
LimbBase == 1000000
LimbDigits == 6

BigZero == <<>>
BigOne == <<1>>

\* v = v is true of every value; in a test it makes TLC work the value out at
\* that point instead of carrying the expression along, which keeps the
\* evaluation of a recursion flat.
Known(v) == v = v

Least(a, b) == IF a < b THEN a ELSE b
Most(a, b) == IF a > b THEN a ELSE b

\* 10^j for 0 <= j <= 6, 2^j for 0 <= j <= 10
Pow10Small(j) ==
  CASE j = 0 -> 1 [] j = 1 -> 10 [] j = 2 -> 100 [] j = 3 -> 1000
    [] j = 4 -> 10000 [] j = 5 -> 100000 [] OTHER -> 1000000
Pow2Small(j) ==
  CASE j = 0 -> 1 [] j = 1 -> 2 [] j = 2 -> 4 [] j = 3 -> 8 [] j = 4 -> 16
    [] j = 5 -> 32 [] j = 6 -> 64 [] j = 7 -> 128 [] j = 8 -> 256
    [] j = 9 -> 512 [] OTHER -> 1024

\* The number of decimal digits of a limb x > 0.
SmallDigits(x) ==
  IF x < 10 THEN 1 ELSE IF x < 100 THEN 2 ELSE IF x < 1000 THEN 3
  ELSE IF x < 10000 THEN 4 ELSE IF x < 100000 THEN 5 ELSE 6

RECURSIVE BigTrim(_)
BigTrim(a) ==
  IF a # <<>> /\ a[Len(a)] = 0 THEN BigTrim(SubSeq(a, 1, Len(a) - 1)) ELSE a

Limb(a, i) == IF i <= Len(a) THEN a[i] ELSE 0

RECURSIVE BigCmpFrom(_, _, _)
BigCmpFrom(a, b, i) ==
  IF i = 0 THEN 0
  ELSE IF a[i] < b[i] THEN -1
  ELSE IF a[i] > b[i] THEN 1
  ELSE BigCmpFrom(a, b, i - 1)

\* -1, 0, 1 as a < b, a = b, a > b
BigCmp(a, b) ==
  IF Len(a) < Len(b) THEN -1
  ELSE IF Len(a) > Len(b) THEN 1
  ELSE BigCmpFrom(a, b, Len(a))

RECURSIVE BigAddFrom(_, _, _, _, _)
BigAddFrom(a, b, i, carry, acc) ==
  IF Known(carry) /\ Known(acc) /\ i > Len(a) /\ i > Len(b)
    THEN IF carry = 0 THEN acc ELSE Append(acc, carry)
    ELSE BigAddFrom(a, b, i + 1, (Limb(a, i) + Limb(b, i) + carry) \div LimbBase,
                    Append(acc, (Limb(a, i) + Limb(b, i) + carry) % LimbBase))

BigAdd(a, b) == BigAddFrom(a, b, 1, 0, <<>>)

RECURSIVE BigSubFrom(_, _, _, _, _)
BigSubFrom(a, b, i, borrow, acc) ==
  IF Known(borrow) /\ Known(acc) /\ i > Len(a) THEN BigTrim(acc)
  ELSE BigSubFrom(a, b, i + 1, IF a[i] - Limb(b, i) - borrow < 0 THEN 1 ELSE 0,
                  Append(acc, (a[i] - Limb(b, i) - borrow + LimbBase) % LimbBase))

\* a - b, for a >= b
BigSub(a, b) == BigSubFrom(a, b, 1, 0, <<>>)

RECURSIVE BigMulSmallFrom(_, _, _, _, _)
BigMulSmallFrom(a, k, i, carry, acc) ==
  IF Known(carry) /\ Known(acc) /\ i > Len(a)
    THEN IF carry = 0 THEN acc ELSE Append(acc, carry)
    ELSE BigMulSmallFrom(a, k, i + 1, (a[i] * k + carry) \div LimbBase,
                         Append(acc, (a[i] * k + carry) % LimbBase))

\* a * k, for 0 <= k <= 2000
BigMulSmall(a, k) == IF k = 0 THEN BigZero ELSE BigMulSmallFrom(a, k, 1, 0, <<>>)

RECURSIVE BigDivSmallFrom(_, _, _, _, _)
BigDivSmallFrom(a, k, i, rem, acc) ==
  IF Known(rem) /\ Known(acc) /\ i = 0 THEN [q |-> BigTrim(acc), r |-> rem]
  ELSE BigDivSmallFrom(a, k, i - 1, (rem * LimbBase + a[i]) % k,
                       <<(rem * LimbBase + a[i]) \div k>> \o acc)

\* quotient and remainder of a by k, for 1 <= k <= 2000
BigDivSmall(a, k) == BigDivSmallFrom(a, k, Len(a), 0, <<>>)

\* a * LimbBase^n
BigShift(a, n) == IF a = <<>> THEN a ELSE [i \in 1..n |-> 0] \o a

\* a * 10^k
BigTimesPow10(a, k) ==
  BigShift(BigMulSmall(BigMulSmall(a, Pow10Small(Least(k % LimbDigits, 3))),
                       Pow10Small(Most((k % LimbDigits) - 3, 0))),
           k \div LimbDigits)

\* a \div 10^k
BigDivPow10(a, k) ==
  IF k \div LimbDigits >= Len(a) THEN BigZero
  ELSE BigDivSmall(BigDivSmall(SubSeq(a, k \div LimbDigits + 1, Len(a)),
                               Pow10Small(Least(k % LimbDigits, 3))).q,
                   Pow10Small(Most((k % LimbDigits) - 3, 0))).q

\* a * 2^k
RECURSIVE BigTimesPow2(_, _)
BigTimesPow2(a, k) ==
  IF Known(a) /\ k <= 10 THEN BigMulSmall(a, Pow2Small(k))
  ELSE BigTimesPow2(BigMulSmall(a, 1024), k - 10)

BigPow10(k) == BigTimesPow10(BigOne, k)

BigIsOdd(a) == a # <<>> /\ a[1] % 2 = 1

\* The number of decimal digits of a; 0 for 0.
BigNumDigits(a) ==
  IF a = <<>> THEN 0 ELSE LimbDigits * (Len(a) - 1) + SmallDigits(a[Len(a)])

\* The decimal digit of a at 10^p.
BigDigitAt(a, p) ==
  (Limb(a, p \div LimbDigits + 1) \div Pow10Small(p % LimbDigits)) % 10

\* The decimal digits of a, most significant first; <<0>> for 0.
BigToDigits(a) ==
  IF a = <<>> THEN <<0>>
  ELSE [i \in 1..BigNumDigits(a) |-> BigDigitAt(a, BigNumDigits(a) - i)]

\* The digit of the numeral ds at 10^p, and its limb from 10^p on.
DigitAt(ds, p) == IF p < Len(ds) THEN ds[Len(ds) - p] ELSE 0
LimbAt(ds, p) ==
  DigitAt(ds, p) + 10 * DigitAt(ds, p + 1) + 100 * DigitAt(ds, p + 2)
    + 1000 * DigitAt(ds, p + 3) + 10000 * DigitAt(ds, p + 4)
    + 100000 * DigitAt(ds, p + 5)

\* The number a string of decimal digits (most significant first) denotes.
BigFromDigits(ds) ==
  BigTrim([i \in 1..((Len(ds) + LimbDigits - 1) \div LimbDigits) |->
             LimbAt(ds, LimbDigits * (i - 1))])

\* a * x for a limb x
BigMulLimb(a, x) ==
  BigAdd(BigMulSmall(BigMulSmall(a, x \div 1000), 1000), BigMulSmall(a, x % 1000))

RECURSIVE BigMulFrom(_, _, _, _)
BigMulFrom(a, b, i, acc) ==
  IF Known(acc) /\ i = 0 THEN acc
  ELSE BigMulFrom(a, b, i - 1, BigAdd(BigShift(acc, 1), BigMulLimb(a, b[i])))

\* a * b
BigMul(a, b) == BigMulFrom(a, b, Len(b), BigZero)

\* How many times t goes into r (at most 9 times), and what is left.
RECURSIVE BigCount(_, _, _)
BigCount(r, t, n) ==
  IF Known(n) /\ BigCmp(r, t) < 0 THEN [d |-> n, r |-> r] ELSE BigCount(BigSub(r, t), t, n + 1)

\* j digits of a long division: t is the divisor at the highest of their
\* decimal places, r < 10 * t, d the digits so far.
RECURSIVE BigDivDigits(_, _, _, _)
RECURSIVE BigDivDigit(_, _, _, _)
BigDivDigits(r, t, j, d) ==
  IF Known(d) /\ Known(r) /\ j = 0 THEN [d |-> d, r |-> r] ELSE BigDivDigit(BigCount(r, t, 0), t, j, d)
BigDivDigit(c, t, j, d) ==
  BigDivDigits(c.r, BigDivSmall(t, 10).q, j - 1, 10 * d + c.d)

\* Long division by b, g limbs of the quotient still to come.
RECURSIVE BigDivModFrom(_, _, _, _)
RECURSIVE BigDivModLimb(_, _, _, _)
BigDivModFrom(r, b, g, q) ==
  IF Known(r) /\ Known(q) /\ g = 0 THEN [q |-> BigTrim(q), r |-> r]
  ELSE BigDivModLimb(BigDivDigits(r, BigTimesPow10(b, LimbDigits * g - 1), LimbDigits, 0),
                     b, g, q)
BigDivModLimb(s, b, g, q) == BigDivModFrom(s.r, b, g - 1, <<s.d>> \o q)

\* quotient and remainder of a by b, for b > 0
BigDivMod(a, b) ==
  BigDivModFrom(a, b, IF Len(a) < Len(b) THEN 0 ELSE Len(a) - Len(b) + 1, <<>>)

\* ------------------------------------------------------- decimal strings
\* A decimal numeral: the digits before and after the point, most significant
\* first.  "1000" is [neg |-> FALSE, int |-> <<1, 0, 0, 0>>, frac |-> <<>>].
DecStr(int, frac) == [neg |-> FALSE, int |-> int, frac |-> frac]

Zeros(n) == [i \in 1..n |-> 0]

\* ------------------------------------------------------ bignumber.js values
\* A BigNumber: s * c / 10^e with s the sign (1 or -1), c a big natural that
\* ends in no fractional zero, e the number of fractional digits.
\* DECIMAL_PLACES is the library's default, used by dividedBy and toString(10).
DECIMAL_PLACES == 20

\* Fractional zeros at the end of c are dropped, a limb of them at a time first.
RECURSIVE BNStrip(_, _)
BNStrip(c, e) ==
  IF c = <<>> THEN [c |-> c, e |-> 0]
  ELSE IF e >= LimbDigits /\ c[1] = 0 THEN BNStrip(SubSeq(c, 2, Len(c)), e - LimbDigits)
  ELSE IF e > 0 /\ c[1] % 10 = 0 THEN BNStrip(BigDivSmall(c, 10).q, e - 1)
  ELSE [c |-> c, e |-> e]

BNSigned(s, n) == [s |-> s, c |-> n.c, e |-> n.e]
MkBN(s, c, e) == BNSigned(s, BNStrip(c, e))

BNTen == [s |-> 1, c |-> <<10>>, e |-> 0]

\* new BigNumber(string)
BNFromDecStr(str) ==
  MkBN(IF str.neg THEN -1 ELSE 1, BigFromDigits(str.int \o str.frac), Len(str.frac))

\* Rounding to dp decimal places, ROUND_HALF_UP (the default ROUNDING_MODE): cut
\* is the coefficient without the digits after place dp + 1, split before its
\* last digit.
BNRoundCut(s, cut, dp) ==
  MkBN(s, IF cut.r >= 5 THEN BigAdd(cut.q, BigOne) ELSE cut.q, dp)
BNRound(x, dp) ==
  IF x.e <= dp THEN x
  ELSE BNRoundCut(x.s, BigDivSmall(BigDivPow10(x.c, x.e - dp - 1), 10), dp)

\* x.times(y)
BNTimes(x, y) == MkBN(x.s * y.s, BigMul(x.c, y.c), x.e + y.e)

\* x.pow(n), for a natural n
RECURSIVE BNPowFrom(_, _, _)
BNPowFrom(x, n, acc) ==
  IF Known(acc) /\ n = 0 THEN acc ELSE BNPowFrom(x, n - 1, BNTimes(acc, x))
BNPow(x, n) == BNPowFrom(x, n, [s |-> 1, c |-> BigOne, e |-> 0])

\* x.dividedBy(y), for y # 0: to DECIMAL_PLACES places, rounded half up.
BNDividedBy(x, y) ==
  BNRound(MkBN(x.s * y.s,
               BigDivMod(BigTimesPow10(x.c, y.e + DECIMAL_PLACES + 1),
                         BigTimesPow10(y.c, x.e)).q,
               DECIMAL_PLACES + 1),
          DECIMAL_PLACES)

\* x.minus(y), for x, y >= 0, from the two coefficients brought to e places;
\* x - x is +0 under the default rounding mode.
BNDifference(a, b, e) ==
  IF BigCmp(a, b) >= 0 THEN MkBN(1, BigSub(a, b), e) ELSE MkBN(-1, BigSub(b, a), e)
BNMinus(x, y) ==
  BNDifference(BigTimesPow10(x.c, Most(y.e - x.e, 0)),
               BigTimesPow10(y.c, Most(x.e - y.e, 0)), Most(x.e, y.e))

\* x.isPositive(): the sign is positive, which +0 is too.
BNIsPositive(x) == x.s > 0

\* x.toString(10): plain notation, rounded to DECIMAL_PLACES.
BNPlacePoint(neg, ds, e) ==
  [neg |-> neg,
   int |-> IF Len(ds) > e THEN SubSeq(ds, 1, Len(ds) - e) ELSE <<0>>,
   frac |-> IF Len(ds) > e THEN SubSeq(ds, Len(ds) - e + 1, Len(ds))
            ELSE Zeros(e - Len(ds)) \o ds]
BNFixedPoint(r) == BNPlacePoint(r.s < 0 /\ r.c # <<>>, BigToDigits(r.c), r.e)
BNToString10(x) == BNFixedPoint(BNRound(x, DECIMAL_PLACES))

\* --------------------------------------------------------- native numbers
\* A non-negative IEEE 754 double: m * 2^e with 2^52 <= m < 2^53, or 0.
\* (The amounts stay far inside the normal range.)
\* 2^52 = 4503599627370496 and 2^53 = 9007199254740992, in limbs.
TwoPow52 == <<370496, 599627, 4503>>
TwoPow53 == <<740992, 199254, 9007>>
DoubleZero == [m |-> BigZero, e |-> 0]

\* The e with 2^52 <= a / (b * 2^e) < 2^53, from a first e; t is 2^53 * b.
RECURSIVE DScale(_, _, _, _)
DScale(a, b, t, e) ==
  IF Known(b) /\ Known(e) /\ BigCmp(a, t) >= 0 THEN DScale(a, BigMulSmall(b, 2), BigMulSmall(t, 2), e + 1)
  ELSE IF BigCmp(BigMulSmall(a, 2), t) < 0 THEN DScale(BigMulSmall(a, 2), b, t, e - 1)
  ELSE [a |-> a, b |-> b, e |-> e]

\* A first e for DScale, at most a few steps off: a / b lies between
\* 10^(da - db - 1) and 10^(da - db + 1), and 10 is about 2^3.32.
DScaleStart(a0, b0, e0) == DScale(a0, b0, BigMul(TwoPow53, b0), e0)
DScaleAt(a, b, e0) ==
  DScaleStart(BigTimesPow2(a, Most(-e0, 0)), BigTimesPow2(b, Most(e0, 0)), e0)
DScaleFrom(a, b) ==
  DScaleAt(a, b, ((BigNumDigits(a) - BigNumDigits(b) - 1) * 3322) \div 1000 - 54)

\* The double nearest to a / b (ties to even), for a, b > 0: the quotient of the
\* scaled a and b, one up when the remainder is above half of b, or is half of
\* b and the quotient is odd.
DNormal(m, e) ==
  IF m = TwoPow53 THEN [m |-> TwoPow52, e |-> e + 1] ELSE [m |-> m, e |-> e]
DRoundHalf(q, half, e) ==
  DNormal(IF half > 0 \/ (half = 0 /\ BigIsOdd(q)) THEN BigAdd(q, BigOne) ELSE q, e)
DRoundQuotient(d, b, e) == DRoundHalf(d.q, BigCmp(BigMulSmall(d.r, 2), b), e)
DRound(sc) == DRoundQuotient(BigDivMod(sc.a, sc.b), sc.b, sc.e)
DNearest(a, b) == DRound(DScaleFrom(a, b))

\* +str, Number(str): the numeral's value rounded to the nearest double.
DFromRatio(a, places) ==
  IF a = <<>> THEN DoubleZero ELSE DNearest(a, BigPow10(places))
ToNumber(str) == DFromRatio(BigFromDigits(str.int \o str.frac), Len(str.frac))

\* Number::toString's digits: the shortest decimal that reads back as v, and
\* of those the closest to v.  v is 0.d1 d2 ... dn * 10^k.  r / s is the part of
\* v still to print, mp / s and mm / s the distance to the next double up and
\* down halved, ok whether the ends of that interval read back as v (m even).
\* c is the next digit and what is left after it; low and high tell whether
\* the digits so far, or with the last one raised, read back as v; mid
\* compares what is left with a half.
RECURSIVE DGenerate(_, _, _, _, _, _)
RECURSIVE DDigit(_, _, _, _, _, _)
RECURSIVE DPick(_, _, _, _, _, _, _, _, _)
DGenerate(r, s, mp, mm, ok, acc) ==
  DDigit(BigCount(BigMulSmall(r, 10), s, 0), s, BigMulSmall(mp, 10),
         BigMulSmall(mm, 10), ok, acc)
DDigit(c, s, mp1, mm1, ok, acc) ==
  DPick(c, s, mp1, mm1, ok, acc,
        BigCmp(c.r, mm1) < (IF ok THEN 1 ELSE 0),
        BigCmp(BigAdd(c.r, mp1), s) > (IF ok THEN -1 ELSE 0),
        BigCmp(BigMulSmall(c.r, 2), s))
DPick(c, s, mp1, mm1, ok, acc, low, high, mid) ==
  IF Known(acc) /\ ~low /\ ~high THEN DGenerate(c.r, s, mp1, mm1, ok, Append(acc, c.d))
  ELSE IF low /\ ~high THEN Append(acc, c.d)
  ELSE IF ~low /\ high THEN Append(acc, c.d + 1)
  ELSE IF mid < 0 \/ (mid = 0 /\ c.d % 2 = 0) THEN Append(acc, c.d)
  ELSE Append(acc, c.d + 1)

\* The k with 10^(k-1) <= v < 10^k (as far as the interval goes), then the
\* digits.
RECURSIVE DFixup(_, _, _, _, _, _)
RECURSIVE DFixupTest(_, _, _, _, _, _, _, _)
DFixup(r, s, mp, mm, ok, k) ==
  DFixupTest(r, s, mp, mm, ok, k,
             BigCmp(BigAdd(r, mp), s),
             BigCmp(BigMulSmall(BigAdd(r, mp), 10), s))
DFixupTest(r, s, mp, mm, ok, k, top, top10) ==
  IF Known(k) /\ top > (IF ok THEN -1 ELSE 0)
    THEN DFixup(r, BigMulSmall(s, 10), mp, mm, ok, k + 1)
  ELSE IF top10 < (IF ok THEN 0 ELSE 1)
    THEN DFixup(BigMulSmall(r, 10), s, BigMulSmall(mp, 10), BigMulSmall(mm, 10), ok, k - 1)
  ELSE [digits |-> DGenerate(r, s, mp, mm, ok, <<>>), k |-> k]

\* DFixup from a first k, at most a few steps off: v is about 2^(e + 52.5),
\* and 2 is about 10^0.30103.
DFixupAt(r, s, mp, mm, ok, k0) ==
  DFixup(BigTimesPow10(r, Most(-k0, 0)), BigTimesPow10(s, Most(k0, 0)),
         BigTimesPow10(mp, Most(-k0, 0)), BigTimesPow10(mm, Most(-k0, 0)), ok, k0)
DFixupFrom(r, s, mp, mm, ok, e) ==
  DFixupAt(r, s, mp, mm, ok, ((e + 52) * 30103) \div 100000)

\* The fractions to start from: be is 2^|e|; at the lowest significand the
\* next double down is half as far as the next one up.
NumberDigitsFrom(v, be, edge) ==
  DFixupFrom(BigMulSmall(IF v.e >= 0 THEN BigMul(v.m, be) ELSE v.m, IF edge THEN 4 ELSE 2),
             BigMulSmall(IF v.e >= 0 THEN BigOne ELSE be, IF edge THEN 4 ELSE 2),
             BigMulSmall(IF v.e >= 0 THEN be ELSE BigOne, IF edge THEN 2 ELSE 1),
             IF v.e >= 0 THEN be ELSE BigOne,
             ~BigIsOdd(v.m), v.e)
NumberDigits(v) ==
  NumberDigitsFrom(v, BigTimesPow2(BigOne, IF v.e >= 0 THEN v.e ELSE -v.e), v.m = TwoPow52)

\* new BigNumber(v) for a number v >= 0: the value of String(v).
DigitsToBN(g) ==
  MkBN(1, BigTimesPow10(BigFromDigits(g.digits), Most(g.k - Len(g.digits), 0)),
       Most(Len(g.digits) - g.k, 0))
NumberToBN(v) ==
  IF v.m = <<>> THEN [s |-> 1, c |-> BigZero, e |-> 0] ELSE DigitsToBN(NumberDigits(v))

\* Math.pow(10, d): the double nearest to 10^d (exactly 10^d up to d = 22).
MathPow10(d) == DNearest(BigPow10(d), BigOne)

\* ----------------------------------------------------------- token amounts
\* totalSupply(): +new BigNumber(totalSupply).dividedBy(new BigNumber(10)
\*                  .pow(tokenDecimals)).toString(10)
TotalSupplyNumber(totalSupply, tokenDecimals) ==
  ToNumber(BNToString10(BNDividedBy(BNFromDecStr(totalSupply), BNPow(BNTen, tokenDecimals))))

\* calcTransactionAmount(amount, tokenDecimal):
\*   new BigNumber(amount).times(Math.pow(10, tokenDecimal)).toString(10)
calcTransactionAmount(amount, tokenDecimal) ==
  BNToString10(BNTimes(NumberToBN(amount), NumberToBN(MathPow10(tokenDecimal))))

\* ------------------------------------------------------------- token calls
\* What a contract read hands back: a string of digits, null or undefined.
JsString(digits) == [tag |-> "string", digits |-> digits]
JsNull == [tag |-> "null", digits |-> <<>>]
JsUndefined == [tag |-> "undefined", digits |-> <<>>]
Truthy(v) == v.tag = "string" /\ v.digits # <<>>

TokenAddresses == {"0xT"}
TokenDecimals == {0, 18, 21}

\* totalSupply() read results, uint256 numerals: 0, 5, 1000, 10^21, 2^53 + 1,
\* 5^21 and 2^60.
Supplies ==
  { <<0>>, <<5>>, <<1, 0, 0, 0>>,
    <<1, 0, 0, 0, 0, 0, 0, 0, 0, 0, 0, 0, 0, 0, 0, 0, 0, 0, 0, 0, 0, 0>>,
    <<9, 0, 0, 7, 1, 9, 9, 2, 5, 4, 7, 4, 0, 9, 9, 3>>,
    <<4, 7, 6, 8, 3, 7, 1, 5, 8, 2, 0, 3, 1, 2, 5>>,
    <<1, 1, 5, 2, 9, 2, 1, 5, 0, 4, 6, 0, 6, 8, 4, 6, 9, 7, 6>> }

\* allowance() read results: null, undefined, "", "0", "5", "6", "1000", "1001".
Allowances ==
  { JsNull, JsUndefined, JsString(<<>>), JsString(<<0>>), JsString(<<5>>),
    JsString(<<6>>), JsString(<<1, 0, 0, 0>>), JsString(<<1, 0, 0, 1>>) }

NoAmount == DecStr(<<>>, <<>>)

IdleCheck ==
  [pc |-> "idle", tokenDecimals |-> 0, walletAdr |-> "",
   allowanceRead |-> "none", result |-> JsUndefined,
   supplyRead |-> "none", supply |-> <<>>, totalSupply |-> DoubleZero,
   value |-> FALSE]

\* The transactionConfig of approveToken: from, to and data, the data being the
\* approve call encoded with [spender, amount]; there is no value property.
NoRequest == [from |-> "", to |-> "", method |-> "", spender |-> "", amount |-> NoAmount,
              value |-> Undefined]

\* walletAddressAtCall is this.walletAddress when approveToken() was called;
\* sent holds the wallet requests the call has issued.
IdleApproval ==
  [pc |-> "idle", tokenAddress |-> "", tokenDecimals |-> 0, walletAddress |-> Undefined,
   walletAddressAtCall |-> "",
   abi |-> <<>>, supply |-> <<>>, totalSupply |-> DoubleZero,
   request |-> NoRequest, sent |-> <<>>, error |-> NoError]

IdleRoundTrip ==
  [pc |-> "start", tokenDecimal |-> 0, base |-> NoAmount, human |-> DoubleZero,
   scaled |-> NoAmount, back |-> DoubleZero]

\* The entries of an abi: a name and the number of inputs.  The value undefined,
\* where a descriptor is expected, is UndefinedMethod.
Descriptors == [name : {"approve", "Approve"}, inputs : {1, 2}]
UndefinedMethod == [name |-> Undefined, inputs |-> 0]
Abis == UNION {[1..n -> Descriptors] : n \in 0..MaxAbi}
MethodNames == {"approve", "transfer"}

\* The data arrays handed to createTransaction(): one argument, two arguments.
CallData == {<<"5">>, <<"0xS", "1000">>}
CallValues == {Undefined, "", "0x5"}

NoData == [method |-> "", inputs |-> 0, args |-> <<>>]
NoConfig == [from |-> "", to |-> "", data |-> NoData, value |-> ""]

\* The transactionConfig objects a caller hands to sendTransaction() itself.
Configs ==
  { [from |-> "0xA", to |-> "0xT",
     data |-> [method |-> "approve", inputs |-> 2, args |-> <<"0xS", "1000">>],
     value |-> ""],
    [from |-> "", to |-> "0xT",
     data |-> [method |-> "transfer", inputs |-> 1, args |-> <<"5">>],
     value |-> "0x5"] }

IdleTransaction ==
  [pc |-> "idle", op |-> "none", abi |-> <<>>, method |-> "", walletAddress |-> Undefined,
   transactionMethod |-> UndefinedMethod, request |-> NoConfig, sent |-> <<>>,
   error |-> NoError]

\* ------------------------------------------------------------ error values
\* errorMsg strings, kept as the parts the code concatenates.
NotInjectedMsg(usedNetwork) == <<Str(usedNetwork), " wallet is not injected">>
WrongNetworkQueriedMsg(usedNetwork) ==
  <<"Please choose ", Str(usedNetwork), " network in metamask wallet">>
WrongNetworkCachedMsg(usedNetwork) ==
  <<"Please choose ", Str(usedNetwork), " network in metamask wallet.">>
NotAuthorizedMsg == <<"Not authorized">>
TypeErrorMsg == <<"TypeError">>
EncodingErrorMsg == <<"Error">>
ReadFailedMsg == <<"call failed">>
WalletRejectedMsg == <<"User denied transaction signature">>

\* ------------------------------------------------------------- constructor
\* new MetamaskService({testnet, isProduction}): this.wallet = window.ethereum,
\* then this.wallet.on(...) twice; with no wallet object the first .on throws.
Constructor ==
  /\ service = "none"
  /\ service' = IF injected THEN "ready" ELSE "ctorThrew"
  /\ walletAddress' = ""
  /\ UNCHANGED tokenVars
  /\ UNCHANGED <<injected, testnet, isProduction, storedChainId, reloads,
                 reloadPending, nEvents, lastEvent, conn>>

\* --------------------------------------------------------- event handlers
\* The chainChanged handler's test: String(chainId) !== String(newChain).
ChainDiffers_Always(chainId, newChain) == TRUE
ChainDiffers(chainId, newChain) == Str(chainId) # Str(newChain)

\* localStorage.setItem('chainId', newChain) stores String(newChain).
OnChainChanged(newChain) ==
  /\ service = "ready"
  /\ nEvents < MaxEvents
  /\ nEvents' = nEvents + 1
  /\ lastEvent' = [kind |-> "chainChanged", chain |-> newChain]
  /\ IF ChainDiffers(storedChainId, newChain)
       THEN /\ storedChainId' = Str(newChain)
            /\ reloads' = reloads + 1
            /\ reloadPending' = TRUE
       ELSE UNCHANGED <<storedChainId, reloads, reloadPending>>
  /\ UNCHANGED tokenVars
  /\ UNCHANGED <<injected, testnet, isProduction, service, walletAddress, conn>>

\* Whether the accountsChanged handler reloads for this account list.
AccountsForceReload_IfNonEmpty(newAccounts) == newAccounts # <<>>
AccountsForceReload(newAccounts) == TRUE

OnAccountsChanged(newAccounts) ==
  /\ service = "ready"
  /\ nEvents < MaxEvents
  /\ nEvents' = nEvents + 1
  /\ lastEvent' = [kind |-> "accountsChanged", chain |-> Undefined]
  /\ IF AccountsForceReload(newAccounts)
       THEN /\ reloads' = reloads + 1
            /\ reloadPending' = TRUE
       ELSE UNCHANGED <<reloads, reloadPending>>
  /\ UNCHANGED tokenVars
  /\ UNCHANGED <<injected, testnet, isProduction, service, walletAddress,
                 storedChainId, conn>>

\* The page is torn down and loaded again: every object of the old page is gone,
\* localStorage stays.
PageReload ==
  /\ reloadPending
  /\ reloadPending' = FALSE
  /\ service' = "none"
  /\ walletAddress' = ""
  /\ conn' = [c \in Calls |-> IdleCall]
  /\ allowanceCheck' = IdleCheck
  /\ approval' = IdleApproval
  /\ roundTrip' = IdleRoundTrip
  /\ transaction' = IdleTransaction
  /\ UNCHANGED <<injected, testnet, isProduction, storedChainId, reloads,
                 nEvents, lastEvent>>

\* ------------------------------------------------------------- getAccount
\* usedNetwork and usedChain of getAccount.
UsedNetwork == IF isProduction THEN "mainnet" ELSE testnet
UsedChain_TestnetOnly == Lookup(testnet)
UsedChain == IF isProduction THEN networks.mainnet ELSE Lookup(testnet)

\* account[0]
FirstAccount_Last(account) == account[Len(account)]
FirstAccount(account) == account[1]

\* currentChain === usedChain, resChain === usedChain
ChainMatches_Any(chain, usedChain) == TRUE
ChainMatches(chain, usedChain) == chain = usedChain

Settle(c, rec) == conn' = [conn EXCEPT ![c] = rec]

\* Every getAccount() call has locals and a promise of its own: nothing of an
\* earlier call of the same caller is kept.
FreshCall_Keep(c) == conn[c]
FreshCall(c) == IdleCall

\* The synchronous part of getAccount(): reads this.wallet.chainId, then either
\* rejects, asks for the chain id or asks for the accounts.
GetAccount(c, currentChain) ==
  /\ service = "ready"
  /\ conn[c].pc \in {"idle", "resolved", "rejected", "threw"}
  /\ LET call == [FreshCall(c) EXCEPT !.usedNetwork = UsedNetwork,
                                       !.usedChain = UsedChain,
                                       !.currentChain = currentChain]
     IN IF ~injected
          THEN \* this.wallet.chainId on no wallet object
               Settle(c, [call EXCEPT !.pc = "threw", !.error = TypeErrorMsg,
                                      !.currentChain = Undefined])
          ELSE IF Falsy(currentChain)
          THEN Settle(c, [call EXCEPT !.pc = "awaitChainId", !.askedChainId = TRUE])
          ELSE IF ChainMatches(currentChain, call.usedChain)
          THEN Settle(c, [call EXCEPT !.pc = "awaitAccounts", !.askedAccounts = TRUE])
          ELSE Settle(c, [call EXCEPT !.pc = "rejected",
                                      !.error = WrongNetworkCachedMsg(call.usedNetwork)])
  /\ UNCHANGED tokenVars
  /\ UNCHANGED <<injected, testnet, isProduction, service, walletAddress,
                 storedChainId, reloads, reloadPending, nEvents, lastEvent>>

\* eth_chainId answers resChain.
ChainIdReturns(c, resChain) ==
  /\ conn[c].pc = "awaitChainId"
  /\ LET call == [conn[c] EXCEPT !.resChain = resChain]
     IN IF ChainMatches(resChain, call.usedChain)
          THEN Settle(c, [call EXCEPT !.pc = "awaitAccounts", !.askedAccounts = TRUE])
          ELSE Settle(c, [call EXCEPT !.pc = "rejected",
                                      !.error = WrongNetworkQueriedMsg(call.usedNetwork)])
  /\ UNCHANGED tokenVars
  /\ UNCHANGED <<injected, testnet, isProduction, service, walletAddress,
                 storedChainId, reloads, reloadPending, nEvents, lastEvent>>

\* eth_chainId is rejected by the wallet.
ChainIdFails(c) ==
  /\ conn[c].pc = "awaitChainId"
  /\ Settle(c, [conn[c] EXCEPT !.pc = "rejected", !.error = NotAuthorizedMsg])
  /\ UNCHANGED tokenVars
  /\ UNCHANGED <<injected, testnet, isProduction, service, walletAddress,
                 storedChainId, reloads, reloadPending, nEvents, lastEvent>>

\* The chain id the call reports back as network: resChain on the queried path,
\* currentChain on the cached path.
ReportedChain(call) == IF call.askedChainId THEN call.resChain ELSE call.currentChain

\* The revision of src/src/index.ts: resolves without storing the address.
AccountsGranted_NoStore(c, account) ==
  /\ conn[c].pc = "awaitAccounts"
  /\ Settle(c, [conn[c] EXCEPT !.pc = "resolved",
                               !.result = [address |-> FirstAccount(account),
                                           network |-> ReportedChain(conn[c])]])
  /\ UNCHANGED tokenVars
  /\ UNCHANGED <<injected, testnet, isProduction, service, walletAddress,
                 storedChainId, reloads, reloadPending, nEvents, lastEvent>>

\* eth_requestAccounts answers the account list.
AccountsGranted(c, account) ==
  /\ conn[c].pc = "awaitAccounts"
  /\ walletAddress' = FirstAccount(account)
  /\ Settle(c, [conn[c] EXCEPT !.pc = "resolved",
                               !.result = [address |-> FirstAccount(account),
                                           network |-> ReportedChain(conn[c])]])
  /\ UNCHANGED tokenVars
  /\ UNCHANGED <<injected, testnet, isProduction, service,
                 storedChainId, reloads, reloadPending, nEvents, lastEvent>>

\* A variant that forgets the address on a denial.
AccountsRejected_Clears(c) ==
  /\ conn[c].pc = "awaitAccounts"
  /\ walletAddress' = ""
  /\ Settle(c, [conn[c] EXCEPT !.pc = "rejected", !.error = NotAuthorizedMsg])
  /\ UNCHANGED tokenVars
  /\ UNCHANGED <<injected, testnet, isProduction, service,
                 storedChainId, reloads, reloadPending, nEvents, lastEvent>>

\* eth_requestAccounts is rejected (the user denies).
AccountsRejected(c) ==
  /\ conn[c].pc = "awaitAccounts"
  /\ Settle(c, [conn[c] EXCEPT !.pc = "rejected", !.error = NotAuthorizedMsg])
  /\ UNCHANGED tokenVars
  /\ UNCHANGED <<injected, testnet, isProduction, service, walletAddress,
                 storedChainId, reloads, reloadPending, nEvents, lastEvent>>

\* ----------------------------------------------------------- specification
\* The fresh page: nothing constructed, nothing persisted.
Init ==
  /\ injected \in BOOLEAN
  /\ \E p \in Policies : testnet = p[1] /\ isProduction = p[2]
  /\ service = "none"
  /\ walletAddress = ""
  /\ storedChainId = Null
  /\ reloads = 0
  /\ reloadPending = FALSE
  /\ nEvents = 0
  /\ lastEvent = NoEvent
  /\ conn = [c \in Calls |-> IdleCall]
  /\ allowanceCheck = IdleCheck
  /\ approval = IdleApproval
  /\ roundTrip = IdleRoundTrip
  /\ transaction = IdleTransaction

\* The session: overlapping getAccount() calls, and the invalidation of the page
\* by account changes.
Next ==
  \/ Constructor
  \/ \E a \in AccountLists \cup {<<>>} : OnAccountsChanged(a)
  \/ PageReload
  \/ \E c \in Calls, v \in ChainIds \cup {Null} : GetAccount(c, v)
  \/ \E c \in Calls, v \in ChainIds : ChainIdReturns(c, v)
  \/ \E c \in Calls : ChainIdFails(c)
  \/ \E c \in Calls, a \in AccountLists : AccountsGranted(c, a)
  \/ \E c \in Calls : AccountsRejected(c)

Spec == Init /\ [][Next]_vars

\* The wallet's events: both handlers against any persisted chain id, around a
\* single getAccount() call.
EventInit ==
  /\ injected \in BOOLEAN
  /\ \E p \in Policies : testnet = p[1] /\ isProduction = p[2]
  /\ service = "none"
  /\ walletAddress = ""
  /\ storedChainId \in {Null} \cup ChainIds
  /\ reloads = 0
  /\ reloadPending = FALSE
  /\ nEvents = 0
  /\ lastEvent = NoEvent
  /\ conn = [c \in Calls |-> IdleCall]
  /\ allowanceCheck = IdleCheck
  /\ approval = IdleApproval
  /\ roundTrip = IdleRoundTrip
  /\ transaction = IdleTransaction

EventNext ==
  \/ Constructor
  \/ \E v \in ChainIds : OnChainChanged(v)
  \/ \E a \in AccountLists \cup {<<>>} : OnAccountsChanged(a)
  \/ PageReload
  \/ \E c \in {1}, v \in ChainIds \cup {Null} : GetAccount(c, v)
  \/ \E c \in {1}, v \in ChainIds : ChainIdReturns(c, v)
  \/ \E c \in {1} : ChainIdFails(c)
  \/ \E c \in {1}, a \in AccountLists : AccountsGranted(c, a)
  \/ \E c \in {1} : AccountsRejected(c)

EventSpec == EventInit /\ [][EventNext]_vars

\* ------------------------------------------------------ checkTokenAllowance
\* walletAddress || this.walletAddress
WalletAdrOf(walletAddressArg, thisWalletAddress) ==
  IF Falsy(walletAddressArg) THEN thisWalletAddress ELSE walletAddressArg
WalletAdr(walletAddressArg) == WalletAdrOf(walletAddressArg, walletAddress)

\* result = result === '0' ? null : result   (result.toString(10) of a string
\* is the string)
AllowanceZeroToNull_Keep(result) == result
AllowanceZeroToNull(result) == IF result = JsString(<<0>>) THEN JsNull ELSE result

\* result && new BigNumber(result).minus(totalSupply).isPositive()
AllowanceSuffices(result, totalSupply) ==
  /\ Truthy(result)
  /\ BNIsPositive(BNMinus(BNFromDecStr(DecStr(result.digits, <<>>)), NumberToBN(totalSupply)))

\* checkTokenAllowance(...) is called: the allowance read goes out.
CheckTokenAllowance(tokenDecimals, walletAddressArg) ==
  /\ service = "ready"
  /\ allowanceCheck.pc \in {"idle", "returned"}
  /\ allowanceCheck' = [IdleCheck EXCEPT !.pc = "awaitAllowance",
                                          !.tokenDecimals = tokenDecimals,
                                          !.walletAdr = WalletAdr(walletAddressArg),
                                          !.allowanceRead = "pending"]
  /\ UNCHANGED <<approval, roundTrip, transaction>>
  /\ UNCHANGED <<injected, testnet, isProduction, service, walletAddress,
                 storedChainId, reloads, reloadPending, nEvents, lastEvent, conn>>

\* allowance(walletAdr, tokenAddress).call() answers; the totalSupply read goes out.
AllowanceReturns(result) ==
  /\ allowanceCheck.pc = "awaitAllowance"
  /\ allowanceCheck' = [allowanceCheck EXCEPT !.pc = "awaitTotalSupply",
                                               !.allowanceRead = "returned",
                                               !.result = result,
                                               !.supplyRead = "pending"]
  /\ UNCHANGED <<approval, roundTrip, transaction>>
  /\ UNCHANGED <<injected, testnet, isProduction, service, walletAddress,
                 storedChainId, reloads, reloadPending, nEvents, lastEvent, conn>>

\* allowance(...).call() rejects: the catch block returns false.
AllowanceFails ==
  /\ allowanceCheck.pc = "awaitAllowance"
  /\ allowanceCheck' = [allowanceCheck EXCEPT !.pc = "returned",
                                               !.allowanceRead = "rejected",
                                               !.value = FALSE]
  /\ UNCHANGED <<approval, roundTrip, transaction>>
  /\ UNCHANGED <<injected, testnet, isProduction, service, walletAddress,
                 storedChainId, reloads, reloadPending, nEvents, lastEvent, conn>>

\* totalSupply().call() answers: totalSupply() resumes and returns the number;
\* checkTokenAllowance, which awaits totalSupply()'s promise, resumes later.
CheckTotalSupplyReturns(supply) ==
  /\ allowanceCheck.pc = "awaitTotalSupply"
  /\ allowanceCheck' =
       [allowanceCheck EXCEPT !.pc = "totalSupplyResolved",
                              !.supplyRead = "returned",
                              !.supply = supply,
                              !.totalSupply = TotalSupplyNumber(DecStr(supply, <<>>),
                                                                allowanceCheck.tokenDecimals)]
  /\ UNCHANGED <<approval, roundTrip, transaction>>
  /\ UNCHANGED <<injected, testnet, isProduction, service, walletAddress,
                 storedChainId, reloads, reloadPending, nEvents, lastEvent, conn>>

\* totalSupply().call() rejects: totalSupply()'s promise rejects.
CheckTotalSupplyFails ==
  /\ allowanceCheck.pc = "awaitTotalSupply"
  /\ allowanceCheck' = [allowanceCheck EXCEPT !.pc = "totalSupplyRejected",
                                               !.supplyRead = "rejected"]
  /\ UNCHANGED <<approval, roundTrip, transaction>>
  /\ UNCHANGED <<injected, testnet, isProduction, service, walletAddress,
                 storedChainId, reloads, reloadPending, nEvents, lastEvent, conn>>

\* The allowance is compared with the number totalSupply() returned.
CheckCompared(result, totalSupply) ==
  [allowanceCheck EXCEPT !.pc = "returned",
                         !.value = AllowanceSuffices(AllowanceZeroToNull(result),
                                                     totalSupply)]

\* checkTokenAllowance resumes after 'await this.totalSupply(...)': it compares,
\* or its catch block returns false.
CheckResumes ==
  /\ allowanceCheck.pc \in {"totalSupplyResolved", "totalSupplyRejected"}
  /\ allowanceCheck' =
       IF allowanceCheck.pc = "totalSupplyRejected"
         THEN [allowanceCheck EXCEPT !.pc = "returned", !.value = FALSE]
         ELSE CheckCompared(allowanceCheck.result, allowanceCheck.totalSupply)
  /\ UNCHANGED <<approval, roundTrip, transaction>>
  /\ UNCHANGED <<injected, testnet, isProduction, service, walletAddress,
                 storedChainId, reloads, reloadPending, nEvents, lastEvent, conn>>

\* -------------------------------------------------------- contract binding
\* abi.filter((m) => m.name === methodName)[0]: the first match, or undefined
\* when the filtered array is empty.
FirstOrUndefined(matches) == IF matches = <<>> THEN UndefinedMethod ELSE matches[1]

getMethodInterface(abi, methodName) ==
  FirstOrUndefined(SelectSeq(abi, LAMBDA m : m.name = methodName))

\* web3's encodeFunctionCall(abi, data): it throws a TypeError on an undefined
\* descriptor and an Error when data does not have the descriptor's number of
\* inputs; otherwise the payload is the method's selector followed by the
\* encoded arguments.
EncodeThrows(method, data) == method = UndefinedMethod \/ Len(data) # method.inputs
EncodeError(method) == IF method = UndefinedMethod THEN TypeErrorMsg ELSE EncodingErrorMsg
encodeFunctionCall(method, data) ==
  [method |-> method.name, inputs |-> method.inputs, args |-> data]

\* sendTransaction(transactionConfig): the wallet requests it issues.
sendTransaction_Twice(transactionConfig) ==
  << [method |-> "eth_sendTransaction", params |-> <<transactionConfig>>],
     [method |-> "eth_sendTransaction", params |-> <<transactionConfig>>] >>
sendTransaction(transactionConfig) ==
  << [method |-> "eth_sendTransaction", params |-> <<transactionConfig>>] >>

\* ------------------------------------------------------------ approveToken
\* approveToken(...) is called: the totalSupply read goes out.
ApproveToken(tokenAddress, abi, tokenDecimals, walletAddressArg) ==
  /\ service = "ready"
  /\ approval.pc \in {"idle", "returnedError", "resolved", "rejected"}
  /\ approval' = [IdleApproval EXCEPT !.pc = "awaitTotalSupply",
                                      !.tokenAddress = tokenAddress,
                                      !.tokenDecimals = tokenDecimals,
                                      !.walletAddress = walletAddressArg,
                                      !.walletAddressAtCall = walletAddress,
                                      !.abi = abi]
  /\ UNCHANGED <<allowanceCheck, roundTrip, transaction>>
  /\ UNCHANGED <<injected, testnet, isProduction, service, walletAddress,
                 storedChainId, reloads, reloadPending, nEvents, lastEvent, conn>>

\* totalSupply().call() answers: totalSupply() resumes and returns the number;
\* approveToken, which awaits totalSupply()'s promise, resumes later.
ApproveTotalSupplyReturns(supply) ==
  /\ approval.pc = "awaitTotalSupply"
  /\ approval' = [approval EXCEPT !.pc = "totalSupplyResolved",
                                  !.supply = supply,
                                  !.totalSupply = TotalSupplyNumber(DecStr(supply, <<>>),
                                                                    approval.tokenDecimals)]
  /\ UNCHANGED <<allowanceCheck, roundTrip, transaction>>
  /\ UNCHANGED <<injected, testnet, isProduction, service, walletAddress,
                 storedChainId, reloads, reloadPending, nEvents, lastEvent, conn>>

\* totalSupply().call() rejects: totalSupply()'s promise rejects.
ApproveTotalSupplyFails ==
  /\ approval.pc = "awaitTotalSupply"
  /\ approval' = [approval EXCEPT !.pc = "totalSupplyRejected"]
  /\ UNCHANGED <<allowanceCheck, roundTrip, transaction>>
  /\ UNCHANGED <<injected, testnet, isProduction, service, walletAddress,
                 storedChainId, reloads, reloadPending, nEvents, lastEvent, conn>>

ApproveSent(transactionConfig) ==
  [approval EXCEPT !.pc = "sending",
                   !.request = transactionConfig,
                   !.sent = sendTransaction(transactionConfig)]

\* walletAddress || this.walletAddress of approveToken, read when the
\* transactionConfig is assembled.
ApproveFrom_AtCall == WalletAdrOf(approval.walletAddress, approval.walletAddressAtCall)
ApproveFrom == WalletAdr(approval.walletAddress)

\* The approve call is encoded with [tokenAddress, amount] and handed to
\* eth_sendTransaction; when the abi has no approve entry, or its first approve
\* entry does not take two inputs, the encoding throws and the catch block
\* returns the error.
ApproveEncoded(approveMethod, amount) ==
  IF EncodeThrows(approveMethod, <<approval.tokenAddress, amount>>)
    THEN [approval EXCEPT !.pc = "returnedError", !.error = EncodeError(approveMethod)]
    ELSE ApproveSent([from |-> ApproveFrom,
                      to |-> approval.tokenAddress,
                      method |-> approveMethod.name,
                      spender |-> approval.tokenAddress,
                      amount |-> amount,
                      value |-> Undefined])

\* approveToken resumes after 'await this.totalSupply(...)': it encodes and
\* sends, or its catch block returns the error of the read.
ApproveResumes ==
  /\ approval.pc \in {"totalSupplyResolved", "totalSupplyRejected"}
  /\ approval' =
       IF approval.pc = "totalSupplyRejected"
         THEN [approval EXCEPT !.pc = "returnedError", !.error = ReadFailedMsg]
         ELSE ApproveEncoded(getMethodInterface(approval.abi, "approve"),
                             calcTransactionAmount(approval.totalSupply,
                                                   approval.tokenDecimals))
  /\ UNCHANGED <<allowanceCheck, roundTrip, transaction>>
  /\ UNCHANGED <<injected, testnet, isProduction, service, walletAddress,
                 storedChainId, reloads, reloadPending, nEvents, lastEvent, conn>>

\* eth_sendTransaction settles; approveToken returned its promise, so the
\* caller sees the wallet's own answer.
ApproveSendSettles(ok) ==
  /\ approval.pc = "sending"
  /\ approval' = [approval EXCEPT !.pc = IF ok THEN "resolved" ELSE "rejected",
                                  !.error = IF ok THEN NoError ELSE WalletRejectedMsg]
  /\ UNCHANGED <<allowanceCheck, roundTrip, transaction>>
  /\ UNCHANGED <<injected, testnet, isProduction, service, walletAddress,
                 storedChainId, reloads, reloadPending, nEvents, lastEvent, conn>>

\* -------------------------------------- createTransaction, sendTransaction
\* The call has handed its transactionConfig to sendTransaction().
Submitted(op, abi, method, transactionMethod, walletAddressArg, transactionConfig) ==
  [IdleTransaction EXCEPT !.pc = "sending", !.op = op, !.abi = abi, !.method = method,
                          !.walletAddress = walletAddressArg,
                          !.transactionMethod = transactionMethod,
                          !.request = transactionConfig,
                          !.sent = sendTransaction(transactionConfig)]

\* createTransaction after getMethodInterface: encodeFunctionCall either throws
\* out of createTransaction, or its payload goes into the transactionConfig
\* that is handed to sendTransaction().
Created(abi, method, transactionMethod, data, tokenAddress, walletAddressArg, value) ==
  IF EncodeThrows(transactionMethod, data)
    THEN [IdleTransaction EXCEPT !.pc = "threw", !.op = "createTransaction",
                                 !.abi = abi, !.method = method,
                                 !.walletAddress = walletAddressArg,
                                 !.transactionMethod = transactionMethod,
                                 !.error = EncodeError(transactionMethod)]
    ELSE Submitted("createTransaction", abi, method, transactionMethod, walletAddressArg,
                   [from |-> WalletAdr(walletAddressArg),
                    to |-> tokenAddress,
                    data |-> encodeFunctionCall(transactionMethod, data),
                    value |-> IF Falsy(value) THEN "" ELSE value])

CreateTransaction(abi, method, data, tokenAddress, walletAddressArg, value) ==
  /\ service = "ready"
  /\ transaction.pc \in {"idle", "threw", "resolved", "rejected"}
  /\ transaction' = Created(abi, method, getMethodInterface(abi, method), data,
                            tokenAddress, walletAddressArg, value)
  /\ UNCHANGED <<allowanceCheck, approval, roundTrip>>
  /\ UNCHANGED <<injected, testnet, isProduction, service, walletAddress,
                 storedChainId, reloads, reloadPending, nEvents, lastEvent, conn>>

\* A variant that takes the sender of the request for the session's address.
SendTransaction_StoresFrom(transactionConfig) ==
  /\ service = "ready"
  /\ transaction.pc \in {"idle", "threw", "resolved", "rejected"}
  /\ transaction' = Submitted("sendTransaction", <<>>, "", UndefinedMethod, Undefined,
                              transactionConfig)
  /\ walletAddress' = transactionConfig.from
  /\ UNCHANGED <<allowanceCheck, approval, roundTrip>>
  /\ UNCHANGED <<injected, testnet, isProduction, service,
                 storedChainId, reloads, reloadPending, nEvents, lastEvent, conn>>

\* A caller hands a transactionConfig of its own to sendTransaction().
SendTransaction(transactionConfig) ==
  /\ service = "ready"
  /\ transaction.pc \in {"idle", "threw", "resolved", "rejected"}
  /\ transaction' = Submitted("sendTransaction", <<>>, "", UndefinedMethod, Undefined,
                              transactionConfig)
  /\ UNCHANGED <<allowanceCheck, approval, roundTrip>>
  /\ UNCHANGED <<injected, testnet, isProduction, service, walletAddress,
                 storedChainId, reloads, reloadPending, nEvents, lastEvent, conn>>

\* eth_sendTransaction settles: the promise sendTransaction() returned is the
\* wallet's.
TransactionSettles(ok) ==
  /\ transaction.pc = "sending"
  /\ transaction' = [transaction EXCEPT !.pc = IF ok THEN "resolved" ELSE "rejected",
                                        !.error = IF ok THEN NoError ELSE WalletRejectedMsg]
  /\ UNCHANGED <<allowanceCheck, approval, roundTrip>>
  /\ UNCHANGED <<injected, testnet, isProduction, service, walletAddress,
                 storedChainId, reloads, reloadPending, nEvents, lastEvent, conn>>

\* -------------------------------------------------- the amounts' arithmetic
RoundTripDecimals == {0, 1, 6, 18, 20, 21}

\* Base-unit amounts: 1, 5, 1000, 123456789, 10^18, 10^21, 5^21, 2^53 + 1, 2^60.
BaseAmounts ==
  { <<1>>, <<5>>, <<1, 0, 0, 0>>, <<1, 2, 3, 4, 5, 6, 7, 8, 9>>,
    <<1, 0, 0, 0, 0, 0, 0, 0, 0, 0, 0, 0, 0, 0, 0, 0, 0, 0, 0>>,
    <<1, 0, 0, 0, 0, 0, 0, 0, 0, 0, 0, 0, 0, 0, 0, 0, 0, 0, 0, 0, 0, 0>>,
    <<4, 7, 6, 8, 3, 7, 1, 5, 8, 2, 0, 3, 1, 2, 5>>,
    <<9, 0, 0, 7, 1, 9, 9, 2, 5, 4, 7, 4, 0, 9, 9, 3>>,
    <<1, 1, 5, 2, 9, 2, 1, 5, 0, 4, 6, 0, 6, 8, 4, 6, 9, 7, 6>> }

\* Human amounts: "1", "1000", "1.5", "0.1", "123.456", "0.000001" and
\* "0.000000476837158203125" (2^-21).
HumanAmounts ==
  { DecStr(<<1>>, <<>>), DecStr(<<1, 0, 0, 0>>, <<>>), DecStr(<<1>>, <<5>>),
    DecStr(<<0>>, <<1>>), DecStr(<<1, 2, 3>>, <<4, 5, 6>>),
    DecStr(<<0>>, <<0, 0, 0, 0, 0, 1>>),
    DecStr(<<0>>, <<0, 0, 0, 0, 0, 0, 4, 7, 6, 8, 3, 7, 1, 5, 8, 2, 0, 3, 1, 2, 5>>) }

\* totalSupply()'s arithmetic on a base-unit amount.
TotalSupplyOf(base, tokenDecimal) ==
  /\ roundTrip.pc = "start"
  /\ roundTrip' = [roundTrip EXCEPT !.pc = "unscaled",
                                     !.tokenDecimal = tokenDecimal,
                                     !.base = DecStr(base, <<>>),
                                     !.human = TotalSupplyNumber(DecStr(base, <<>>),
                                                                 tokenDecimal)]
  /\ UNCHANGED <<allowanceCheck, approval, transaction>>
  /\ UNCHANGED <<injected, testnet, isProduction, service, walletAddress,
                 storedChainId, reloads, reloadPending, nEvents, lastEvent, conn>>

\* calcTransactionAmount() on the number totalSupply() gave.
ScaleBack ==
  /\ roundTrip.pc = "unscaled"
  /\ roundTrip' = [roundTrip EXCEPT !.pc = "rescaled",
                                     !.scaled = calcTransactionAmount(roundTrip.human,
                                                                      roundTrip.tokenDecimal)]
  /\ UNCHANGED <<allowanceCheck, approval, transaction>>
  /\ UNCHANGED <<injected, testnet, isProduction, service, walletAddress,
                 storedChainId, reloads, reloadPending, nEvents, lastEvent, conn>>

\* calcTransactionAmount() on a human amount (the number the numeral reads as).
Scaled(amount, tokenDecimal) ==
  [roundTrip EXCEPT !.pc = "scaled",
                    !.tokenDecimal = tokenDecimal,
                    !.human = amount,
                    !.scaled = calcTransactionAmount(amount, tokenDecimal)]

CalcTransactionAmountOf(human, tokenDecimal) ==
  /\ roundTrip.pc = "start"
  /\ roundTrip' = Scaled(ToNumber(human), tokenDecimal)
  /\ UNCHANGED <<allowanceCheck, approval, transaction>>
  /\ UNCHANGED <<injected, testnet, isProduction, service, walletAddress,
                 storedChainId, reloads, reloadPending, nEvents, lastEvent, conn>>

\* totalSupply()'s arithmetic on the base-unit amount calcTransactionAmount()
\* gave, when that is a whole number of base units.
UnscaleBack ==
  /\ roundTrip.pc = "scaled"
  /\ roundTrip.scaled.frac = <<>>
  /\ roundTrip' = [roundTrip EXCEPT !.pc = "unscaledBack",
                                     !.back = TotalSupplyNumber(roundTrip.scaled,
                                                                roundTrip.tokenDecimal)]
  /\ UNCHANGED <<allowanceCheck, approval, transaction>>
  /\ UNCHANGED <<injected, testnet, isProduction, service, walletAddress,
                 storedChainId, reloads, reloadPending, nEvents, lastEvent, conn>>

\* ------------------------------------------------- token specifications
\* A constructed service on a page with a wallet.
ServiceReady ==
  /\ injected = TRUE
  /\ testnet = "ropsten"
  /\ isProduction = FALSE
  /\ service = "ready"
  /\ walletAddress = ""
  /\ storedChainId = Null
  /\ reloads = 0
  /\ reloadPending = FALSE
  /\ nEvents = 0
  /\ lastEvent = NoEvent
  /\ conn = [c \in Calls |-> IdleCall]

TokenInit ==
  /\ ServiceReady
  /\ allowanceCheck = IdleCheck
  /\ approval = IdleApproval
  /\ roundTrip = IdleRoundTrip
  /\ transaction = IdleTransaction

\* checkTokenAllowance() against every answer of its two reads.
CheckNext ==
  \/ \E d \in TokenDecimals, w \in {Undefined} \cup Addresses : CheckTokenAllowance(d, w)
  \/ \E v \in Allowances : AllowanceReturns(v)
  \/ AllowanceFails
  \/ \E n \in Supplies : CheckTotalSupplyReturns(n)
  \/ CheckTotalSupplyFails
  \/ CheckResumes

CheckSpec == TokenInit /\ [][CheckNext]_vars

\* approveToken() against every answer of its read and of the wallet.
ApproveNext ==
  \/ \E t \in TokenAddresses, d \in TokenDecimals, w \in {Undefined} \cup Addresses,
        abi \in Abis : ApproveToken(t, abi, d, w)
  \/ \E n \in Supplies : ApproveTotalSupplyReturns(n)
  \/ ApproveTotalSupplyFails
  \/ ApproveResumes
  \/ \E ok \in BOOLEAN : ApproveSendSettles(ok)

ApproveSpec == TokenInit /\ [][ApproveNext]_vars

\* The two conversions applied one after the other, in both orders.
AmountNext ==
  \/ \E n \in BaseAmounts, d \in RoundTripDecimals : TotalSupplyOf(n, d)
  \/ ScaleBack
  \/ \E h \in HumanAmounts, d \in RoundTripDecimals : CalcTransactionAmountOf(h, d)
  \/ UnscaleBack

AmountSpec == TokenInit /\ [][AmountNext]_vars

\* createTransaction() and sendTransaction() against every abi, and every answer
\* of the wallet.
CallNext ==
  \/ \E abi \in Abis, m \in MethodNames, data \in CallData, t \in TokenAddresses,
        w \in {Undefined} \cup Addresses, v \in CallValues :
       CreateTransaction(abi, m, data, t, w, v)
  \/ \E config \in Configs : SendTransaction(config)
  \/ \E ok \in BOOLEAN : TransactionSettles(ok)

CallSpec == TokenInit /\ [][CallNext]_vars

\* The whole session of one caller on a page with a wallet: getAccount(), the
\* wallet's events, and the token and transaction calls, each call overlapping
\* getAccount() and the events at its awaits.  Between two page loads the
\* caller uses one of checkTokenAllowance, approveToken and createTransaction /
\* sendTransaction, any number of times (they share no state with each other).
SessionChains == {"0x1", "0x3"}
SessionSupplies == {<<1, 0, 0, 0>>}
SessionAllowances == {JsString(<<0>>), JsString(<<1, 0, 0, 1>>)}
SessionAccounts == {<<"0xA">>, <<"0xB", "0xA">>}
SessionAbis ==
  {<<>>, <<[name |-> "approve", inputs |-> 2]>>, <<[name |-> "approve", inputs |-> 1]>>}

SessionNext ==
  \/ Constructor
  \/ \E v \in SessionChains : OnChainChanged(v)
  \/ \E a \in SessionAccounts : OnAccountsChanged(a)
  \/ PageReload
  \/ \E v \in SessionChains \cup {Null} : GetAccount(1, v)
  \/ \E v \in SessionChains : ChainIdReturns(1, v)
  \/ ChainIdFails(1)
  \/ \E a \in SessionAccounts : AccountsGranted(1, a)
  \/ AccountsRejected(1)
  \/ /\ approval.pc = "idle" /\ transaction.pc = "idle"
     /\ \E w \in {Undefined} : CheckTokenAllowance(0, w)
  \/ \E v \in SessionAllowances : AllowanceReturns(v)
  \/ AllowanceFails
  \/ \E n \in SessionSupplies : CheckTotalSupplyReturns(n)
  \/ CheckTotalSupplyFails
  \/ CheckResumes
  \/ /\ allowanceCheck.pc = "idle" /\ transaction.pc = "idle"
     /\ \E t \in TokenAddresses, abi \in SessionAbis, w \in {Undefined, "0xB"} :
          ApproveToken(t, abi, 0, w)
  \/ \E n \in SessionSupplies : ApproveTotalSupplyReturns(n)
  \/ ApproveTotalSupplyFails
  \/ ApproveResumes
  \/ \E ok \in BOOLEAN : ApproveSendSettles(ok)
  \/ /\ allowanceCheck.pc = "idle" /\ approval.pc = "idle"
     /\ \E abi \in SessionAbis, t \in TokenAddresses, w \in {Undefined, "0xB"} :
          CreateTransaction(abi, "approve", <<"0xS", "1000">>, t, w, Undefined)
  \/ /\ allowanceCheck.pc = "idle" /\ approval.pc = "idle"
     /\ \E config \in Configs : SendTransaction(config)
  \/ \E ok \in BOOLEAN : TransactionSettles(ok)

SessionSpec == TokenInit /\ [][SessionNext]_vars

\* ================================================================== claims
\* The expected chain id and network name of the session's policy, from the
\* network table of the specification (mainnet 0x1; ropsten 0x3, kovan 0x2a,
\* rinkeby 0x4).
ExpectedId ==
  IF isProduction THEN "0x1"
  ELSE CASE testnet = "ropsten" -> "0x3"
         [] testnet = "kovan" -> "0x2a"
         [] testnet = "rinkeby" -> "0x4"
         [] OTHER -> Undefined
ExpectedName ==
  IF isProduction THEN "mainnet" ELSE IF testnet = Undefined THEN "undefined" ELSE testnet

\* The wallet has told this call its chain id (cached, or by eth_chainId).
HasReport(call) ==
  call.pc # "idle" /\ (call.currentChain \in ChainIds \/ call.resChain \in ChainIds)
Reported(call) ==
  IF call.currentChain \in ChainIds THEN call.currentChain ELSE call.resChain

IsWrongNetwork(call) ==
  /\ call.pc = "rejected"
  /\ Len(call.error) = 3
  /\ call.error[1] = "Please choose "
  /\ call.error[2] = ExpectedName
IsNotAuthorized(call) == call.pc = "rejected" /\ call.error = <<"Not authorized">>

\* C1: whenever a getAccount() call learns a chain id that differs from the
\* expected one, that very step rejects it with the wrong-network message naming
\* the expected network, eth_requestAccounts has not been and is not issued by
\* the call, and walletAddress is left as it was.
C1_MismatchRejects ==
  [][\A c \in Calls :
       (conn'[c] # conn[c] /\ HasReport(conn'[c]) /\ Reported(conn'[c]) # ExpectedId)
         => /\ IsWrongNetwork(conn'[c])
            /\ ~conn'[c].askedAccounts
            /\ walletAddress' = walletAddress]_vars

C1_Witness ==
  \E c \in Calls :
    /\ HasReport(conn[c]) /\ Reported(conn[c]) # ExpectedId
    /\ conn[c].askedChainId
    /\ IsWrongNetwork(conn[c])
    /\ walletAddress \in Addresses

\* C2: a call that learns the expected chain id asks for the accounts, and when
\* the wallet grants the list `account` the call resolves with
\* {address: account[0], network: the expected id} and walletAddress is account[0].
C2_GrantResolves ==
  [][\A c \in Calls :
       /\ (conn'[c] # conn[c] /\ HasReport(conn'[c]) /\ Reported(conn'[c]) = ExpectedId)
            => conn'[c].askedAccounts
       /\ (conn[c].pc = "awaitAccounts" /\ conn'[c] # conn[c])
            => \A a \in AccountLists :
                 AccountsGranted(c, a)
                   => /\ Reported(conn[c]) = ExpectedId
                      /\ conn'[c].pc = "resolved"
                      /\ conn'[c].result = [address |-> a[1], network |-> ExpectedId]
                      /\ walletAddress' = a[1]]_vars

C2_Witness ==
  \E c \in Calls :
    /\ conn[c].pc = "resolved"
    /\ conn[c].askedChainId
    /\ conn[c].result.network = ExpectedId
    /\ conn[c].result.address = "0xB"
    /\ walletAddress = "0xB"

\* C3: with no wallet object injected, creating the session and connecting ends
\* in a rejection whose message is the not-injected one, and no wallet RPC is
\* issued.  (The constructor already dereferences the missing wallet.)
C3_NotInjectedRejects ==
  ~injected =>
    /\ service # "ctorThrew"
    /\ \A c \in Calls :
         conn[c].pc # "idle" =>
           /\ conn[c].pc = "rejected"
           /\ conn[c].error = NotInjectedMsg(ExpectedName)
           /\ ~conn[c].askedChainId /\ ~conn[c].askedAccounts

\* C4: when a call that saw the expected chain id has its account request
\* denied, it rejects with 'Not authorized' and walletAddress keeps its value.
C4_DenialRejects ==
  [][\A c \in Calls :
       (conn[c].pc = "awaitAccounts" /\ conn'[c].pc = "rejected")
         => /\ IsNotAuthorized(conn'[c])
            /\ Reported(conn'[c]) = ExpectedId
            /\ walletAddress' = walletAddress]_vars

C4_Witness ==
  \E c \in Calls :
    /\ IsNotAuthorized(conn[c]) /\ conn[c].askedAccounts
    /\ walletAddress \in Addresses

\* C5: a chainChanged(v) event with v different from the persisted chain id
\* persists v and calls reload once; with v equal to the persisted id it
\* changes neither the persisted id nor the number of reloads.
C5_ChainChangedOnce ==
  [][\A v \in ChainIds :
       (nEvents' = nEvents + 1 /\ lastEvent' = [kind |-> "chainChanged", chain |-> v])
         => IF storedChainId # v
              THEN storedChainId' = v /\ reloads' = reloads + 1 /\ reloadPending'
              ELSE /\ storedChainId' = storedChainId /\ reloads' = reloads
                   /\ reloadPending' = reloadPending]_vars

\* The same value fired twice: one reload.
C5_Witness ==
  /\ nEvents = 2 /\ reloads = 1
  /\ lastEvent.kind = "chainChanged" /\ storedChainId = lastEvent.chain

\* C6: every accountsChanged event calls reload, whatever the account list,
\* the session state and the persisted chain id.
C6_AccountsChangedReloads ==
  [][(nEvents' = nEvents + 1 /\ lastEvent'.kind = "accountsChanged")
       => reloads' = reloads + 1 /\ reloadPending']_vars

C6_Witness ==
  /\ lastEvent.kind = "accountsChanged" /\ reloadPending /\ reloads = 2
  /\ walletAddress \in Addresses /\ storedChainId \in ChainIds

\* The value of a BigNumber x is above that of y (x, y >= 0).
BNAbove(x, y) ==
  LET e == IF x.e > y.e THEN x.e ELSE y.e
  IN BigCmp(BigTimesPow10(x.c, e - x.e), BigTimesPow10(y.c, e - y.e)) > 0

\* C7: checkTokenAllowance returns false, and neither throws nor rejects, when
\* the allowance read rejects, when the totalSupply read rejects, and when the
\* allowance read returns "0" or a falsy value.
C7_FailClosed ==
  /\ allowanceCheck.pc \in {"idle", "awaitAllowance", "awaitTotalSupply",
                            "totalSupplyResolved", "totalSupplyRejected", "returned"}
  /\ allowanceCheck.allowanceRead = "rejected"
       => allowanceCheck.pc = "returned" /\ allowanceCheck.value = FALSE
  /\ allowanceCheck.supplyRead = "rejected"
       => /\ allowanceCheck.pc \in {"totalSupplyRejected", "returned"}
          /\ allowanceCheck.pc = "returned" => allowanceCheck.value = FALSE
  /\ ( /\ allowanceCheck.pc = "returned"
       /\ allowanceCheck.allowanceRead = "returned"
       /\ (allowanceCheck.result = JsString(<<0>>) \/ ~Truthy(allowanceCheck.result)) )
       => allowanceCheck.value = FALSE

\* The allowance read returned "0", the totalSupply read returned 0, and the
\* call returned false.
C7_Witness ==
  /\ allowanceCheck.pc = "returned"
  /\ allowanceCheck.result = JsString(<<0>>)
  /\ allowanceCheck.supplyRead = "returned"
  /\ allowanceCheck.supply = <<0>>
  /\ allowanceCheck.value = FALSE

\* C8: checkTokenAllowance returns true only if the allowance read is strictly
\* greater than the total supply amount it is compared with; it returns false
\* when the two are equal.
C8_TrueOnlyAbove ==
  (allowanceCheck.pc = "returned" /\ allowanceCheck.value = TRUE)
    => BNAbove(BNFromDecStr(DecStr(allowanceCheck.result.digits, <<>>)),
               NumberToBN(allowanceCheck.totalSupply))

\* C9: for every decimals count and every total supply the read returns, the
\* amount argument of the encoded approve call is the numeral the read returned.
C9_ApprovesTotalSupply ==
  approval.pc \in {"sending", "resolved", "rejected"}
    => approval.request.amount = DecStr(approval.supply, <<>>)

\* The number of digits of a numeral up to its last digit that is not 0.
RECURSIVE SignificantDigits(_)
SignificantDigits(ds) ==
  IF ds = <<>> THEN 0
  ELSE IF ds[Len(ds)] = 0 THEN SignificantDigits(SubSeq(ds, 1, Len(ds) - 1))
  ELSE Len(ds)

\* The double v is exactly n / 10^d.
DoubleIsRatio(v, n, d) ==
  IF v.e >= 0 THEN BigTimesPow10(BigTimesPow2(v.m, v.e), d) = n
  ELSE BigTimesPow10(v.m, d) = BigTimesPow2(n, -v.e)

\* A base-unit amount that loses nothing on the way to a number: at most 15
\* significant digits, and n / 10^d is a double.
Lossless(base, d) ==
  /\ SignificantDigits(base.int) <= 15
  /\ DoubleIsRatio(DNearest(BigFromDigits(base.int), BigPow10(d)), BigFromDigits(base.int), d)

\* The number of fractional digits String(v) shows.
FractionDigits(v) ==
  IF v.m = <<>> THEN 0
  ELSE LET g == NumberDigits(v)
       IN IF Len(g.digits) > g.k THEN Len(g.digits) - g.k ELSE 0

\* C10: for every decimals count d and base-unit amount n representable
\* without precision loss, scaling the unscaled n gives n again; for every human
\* amount h with at most d fractional digits, unscaling the scaled h gives h
\* again; and with d = 0 scaling leaves the amount as it is.
C10_RoundTrip ==
  /\ (roundTrip.pc = "rescaled" /\ Lossless(roundTrip.base, roundTrip.tokenDecimal))
       => roundTrip.scaled = roundTrip.base
  /\ (roundTrip.pc = "unscaledBack"
        /\ FractionDigits(roundTrip.human) <= roundTrip.tokenDecimal)
       => roundTrip.back = roundTrip.human
  /\ (roundTrip.pc = "scaled" /\ roundTrip.tokenDecimal = 0
        /\ FractionDigits(roundTrip.human) = 0)
       => ToNumber(roundTrip.scaled) = roundTrip.human

\* The abi has an entry of that name.
HasMethod(abi, name) == \E i \in DOMAIN abi : abi[i].name = name

\* Entry i is the first entry of the abi of that name.
IsFirstMatch(abi, name, i) ==
  abi[i].name = name /\ \A j \in 1..(i - 1) : abi[j].name # name

MethodNotFoundMsg == <<"MethodNotFound">>

\* C11: resolving a method name against an abi gives the first entry, in abi
\* order, whose name is exactly the name asked for; when no entry has that name
\* (the empty abi included) the operation fails with MethodNotFound, and no
\* undefined descriptor is handed to the encoder.
C11_ResolveMethod ==
  transaction.op = "createTransaction" =>
    IF HasMethod(transaction.abi, transaction.method)
      THEN \E i \in DOMAIN transaction.abi :
             /\ IsFirstMatch(transaction.abi, transaction.method, i)
             /\ transaction.transactionMethod = transaction.abi[i]
      ELSE /\ transaction.pc = "threw"
           /\ transaction.error = MethodNotFoundMsg
           /\ transaction.transactionMethod # UndefinedMethod

\* C12: the builders (approveToken, checkTokenAllowance, createTransaction)
\* issue no eth_sendTransaction; a wallet request for a transaction comes only
\* from a call of sendTransaction() made by the caller.
C12_BuildersDoNotSubmit ==
  /\ approval.sent = <<>>
  /\ approval.pc \notin {"sending", "resolved", "rejected"}
  /\ transaction.sent # <<>> => transaction.op = "sendTransaction"

\* The call failed in getMethodInterface / encodeFunctionCall.
ConstructionFailed(call) == call.error \in {TypeErrorMsg, EncodingErrorMsg, MethodNotFoundMsg}

\* C13: when resolving the method or encoding the call fails in approveToken or
\* createTransaction, the operation itself fails towards its caller (it throws or
\* its promise rejects; the error is not its return value), and the operation
\* has issued no eth_sendTransaction.
C13_ConstructionFailurePropagates ==
  /\ ConstructionFailed(approval)
       => approval.pc \in {"threw", "rejected"} /\ approval.sent = <<>>
  /\ ConstructionFailed(transaction)
       => transaction.pc \in {"threw", "rejected"} /\ transaction.sent = <<>>

\* The call is settled with a value a caller can show: resolved with an address
\* and a network, or rejected with an errorMsg.
SettledStructured(call) ==
  \/ /\ call.pc = "resolved"
     /\ call.result.address \in Addresses /\ call.result.network \in ChainIds
     /\ call.error = NoError
  \/ /\ call.pc = "rejected"
     /\ call.error \in {NotInjectedMsg(ExpectedName), NotAuthorizedMsg,
                        WrongNetworkQueriedMsg(ExpectedName),
                        WrongNetworkCachedMsg(ExpectedName)}
     /\ call.result = NoResult

\* C14: whatever the wallet does (absent, chain-id query failing, account request
\* failing, wrong chain), creating the session and connecting throws nothing:
\* every getAccount() call is either waiting for the wallet's answer or settled,
\* resolved with {address, network} or rejected with an errorMsg.
C14_SettlesStructured ==
  /\ service \in {"none", "ready"}
  /\ \A c \in Calls :
       conn[c].pc \notin {"idle", "awaitChainId", "awaitAccounts"}
         => SettledStructured(conn[c])

\* What a connect() that finds the cached chain id v must be doing right after
\* the call, by the reconciler's state machine: probing with an eth_chainId
\* query when v is absent, asking for the accounts when v is the expected id,
\* rejected as mismatched otherwise.
ReconcileStart(v) ==
  IF v \notin ChainIds
    THEN [IdleCall EXCEPT !.pc = "awaitChainId", !.askedChainId = TRUE,
                          !.usedNetwork = UsedNetwork, !.usedChain = ExpectedId,
                          !.currentChain = v]
  ELSE IF v = ExpectedId
    THEN [IdleCall EXCEPT !.pc = "awaitAccounts", !.askedAccounts = TRUE,
                          !.usedNetwork = UsedNetwork, !.usedChain = ExpectedId,
                          !.currentChain = v]
  ELSE [IdleCall EXCEPT !.pc = "rejected",
                        !.error = WrongNetworkCachedMsg(ExpectedName),
                        !.usedNetwork = UsedNetwork, !.usedChain = ExpectedId,
                        !.currentChain = v]

\* C15: getAccount() called again by a caller whose earlier call is settled
\* (resolved, mismatched or not authorized) starts from scratch: it reads the
\* wallet's cached chain id, issues eth_chainId exactly when that id is absent,
\* and where it stands after the call is a function of the cached id alone,
\* whatever the earlier outcome was; walletAddress is left alone by the call.
C15_Reentrant ==
  [][\A c \in Calls :
       ( /\ conn[c].pc \in {"resolved", "rejected"}
         /\ conn'[c] # conn[c]
         /\ ~(reloadPending /\ ~reloadPending') )   \* the page going away is no call
         => /\ \E v \in ChainIds \cup {Null} : conn'[c] = ReconcileStart(v)
            /\ conn'[c].askedChainId <=> conn'[c].currentChain \notin ChainIds
            /\ walletAddress' = walletAddress]_vars

\* A caller that was connected called again, the cached id was absent, the
\* query answered another chain: this time the call is mismatched.
C15_Witness ==
  \E c \in Calls :
    /\ \A o \in Calls \ {c} : conn[o].pc = "idle"
    /\ walletAddress \in Addresses
    /\ conn[c].askedChainId /\ conn[c].resChain \in ChainIds
    /\ IsWrongNetwork(conn[c])

\* C16: walletAddress is empty or an address; a step that changes it is either
\* the page going away (which empties it) or the grant of the account request
\* of a getAccount() call that saw the expected chain id, which stores the
\* first address granted.  Failed calls, builders, sendTransaction and the
\* event handlers leave it as it is.
C16_AddressOnlyByConnect ==
  [][/\ walletAddress' \in {""} \cup Addresses
     /\ walletAddress' # walletAddress
          => \/ walletAddress' = "" /\ reloadPending /\ ~reloadPending'
             \/ \E c \in Calls :
                  /\ conn[c].pc = "awaitAccounts"
                  /\ Reported(conn[c]) = ExpectedId
                  /\ \E a \in AccountLists :
                       AccountsGranted(c, a) /\ walletAddress' = a[1]]_vars

\* The address of an earlier connect is still there after a denied connect, a
\* wallet event and a rejected transaction.
C16_Witness ==
  /\ walletAddress = "0xB"
  /\ IsNotAuthorized(conn[1])
  /\ nEvents > 0 /\ ~reloadPending
  /\ transaction.op = "createTransaction" /\ transaction.pc = "rejected"

\* A step in which a getAccount() call writes walletAddress.
WritesAddress == \E c \in Calls : conn[c].pc = "awaitAccounts" /\ conn'[c].pc = "resolved"

\* C17: between two invalidations of the session walletAddress is written at
\* most once: a write finds it empty, so of two getAccount() calls in flight
\* together at most one writes it.
C17_WriteOnce ==
  [][WritesAddress => walletAddress = ""]_vars

\* The wallet request of a call that has handed transactionConfig to
\* sendTransaction(): one eth_sendTransaction carrying that very object.
ForwardedOnce(call) ==
  /\ Len(call.sent) = 1
  /\ call.sent[1].method = "eth_sendTransaction"
  /\ call.sent[1].params = <<call.request>>

\* C18: a transactionConfig handed to sendTransaction() goes to the wallet as
\* it is (same from, to, data, value) in exactly one eth_sendTransaction; when
\* the wallet rejects it the caller gets the wallet's rejection, and there is no
\* second eth_sendTransaction for it.  A call that built no request sent none.
C18_ForwardedOnce ==
  /\ transaction.pc \in {"sending", "resolved", "rejected"} => ForwardedOnce(transaction)
  /\ transaction.pc = "rejected" => transaction.error = WalletRejectedMsg
  /\ transaction.pc \in {"idle", "threw"} => transaction.sent = <<>>
  /\ approval.pc \in {"sending", "resolved", "rejected"} => ForwardedOnce(approval)
  /\ approval.pc = "rejected" => approval.error = WalletRejectedMsg
  /\ approval.pc \in {"idle", "awaitTotalSupply", "totalSupplyResolved",
                      "totalSupplyRejected", "returnedError"} => approval.sent = <<>>

\* createTransaction built a request with a value, the wallet rejected it.
C18_Witness ==
  /\ transaction.op = "createTransaction"
  /\ transaction.pc = "rejected" /\ transaction.error = WalletRejectedMsg
  /\ transaction.request.value = "0x5" /\ transaction.request.from = "0xB"
  /\ Len(transaction.sent) = 1 /\ transaction.sent[1].params[1] = transaction.request

\* The spender a caller of approveToken means to approve: an address that is
\* not the token's contract.
CallerSpender == "0xS"

\* C19: the request approveToken builds encodes approve with the spender the
\* caller supplied as its first argument, is addressed to the token's contract,
\* and carries no value.
C19_ApprovalRequest ==
  approval.pc \in {"sending", "resolved", "rejected"}
    => /\ approval.request.method = "approve"
       /\ approval.request.spender = CallerSpender
       /\ approval.request.to = approval.tokenAddress
       /\ approval.request.value \in {Undefined, ""}

\* C20: with no walletAddress argument, the from of the request handed to
\* eth_sendTransaction is this.walletAddress as it is when the request is
\* handed over: for approveToken that is when it resumes after the totalSupply
\* read, whatever the address was when approveToken was called (the empty
\* string if no getAccount() has resolved yet); for createTransaction it is the
\* address at the call.
C20_FromAtSubmission ==
  [][/\ ( /\ approval.pc = "totalSupplyResolved" /\ approval'.pc = "sending"
          /\ Falsy(approval.walletAddress) )
          => /\ approval'.request.from = walletAddress
             /\ approval'.sent[1].params[1].from = walletAddress
             /\ walletAddress' = walletAddress
     /\ ( /\ transaction' # transaction /\ transaction'.pc = "sending"
          /\ transaction'.op = "createTransaction"
          /\ Falsy(transaction'.walletAddress) )
          => /\ transaction'.sent[1].params[1].from = walletAddress
             /\ walletAddress' = walletAddress]_vars

\* approveToken was called before any getAccount() had resolved; one resolved
\* during the totalSupply read, and the request is sent from its address.
C20_Witness ==
  /\ approval.pc = "sending"
  /\ Falsy(approval.walletAddress)
  /\ approval.walletAddressAtCall = ""
  /\ approval.request.from = "0xB"
  /\ approval.sent[1].params[1].from = "0xB"
  /\ conn[1].pc = "resolved" /\ conn[1].result.address = "0xB"

====
